---------------------------- MODULE Spec2Model ----------------------------
(***************************************************************************)
(* Kernel quadrature estimators of utils/kernel_means.py.                  *)
(*                                                                         *)
(* Every estimator KQ_* computes  phi.T @ inv(K + eps*I) @ f_X  for a      *)
(* kernel Gram matrix K and an embedding vector phi; every wrapper         *)
(* KQ_*_Vectorized maps its estimator over the leading axis with jax.vmap. *)
(*                                                                         *)
(* Arithmetic is exact.  A scalar is a rational <<n, d>> in lowest terms.  *)
(* A quantity that involves the regulariser is a polynomial in eps with    *)
(* rational coefficients (a sequence, constant term first), and a result   *)
(* of the matrix inversion is a quotient [num, den] of two of them.        *)
(* NaN, the value of an undefined operation, is the quotient 0/0.          *)
(***************************************************************************)
EXTENDS Integers, Sequences, FiniteSets, TLC

(***************************************************************************)
(* Bounds of the model.                                                    *)
(***************************************************************************)
MaxT == 2
MaxN == 2

Dims == {1, 2}
XVals == {0, 1}

(***************************************************************************)
(* Rationals.                                                              *)
(***************************************************************************)
Abs(n) == IF n < 0 THEN -n ELSE n

RECURSIVE Gcd(_, _)
Gcd(a, b) == IF b = 0 THEN a ELSE Gcd(b, a % b)

Q(n, d) ==
    LET g == Gcd(Abs(n), Abs(d))
        s == IF d < 0 THEN -1 ELSE 1
    IN  <<(s * n) \div g, (s * d) \div g>>

QInt(n) == <<n, 1>>
QZero == <<0, 1>>
QOne == <<1, 1>>
QNaN == <<0, 0>>
QIsNaN(a) == a[2] = 0

\* every operation on a NaN gives NaN, as in IEEE arithmetic
QAdd(a, b) ==
    IF QIsNaN(a) \/ QIsNaN(b) THEN QNaN
    ELSE LET g == Gcd(a[2], b[2])
         IN  Q(a[1] * (b[2] \div g) + b[1] * (a[2] \div g), (a[2] \div g) * b[2])
QNeg(a) == <<-a[1], a[2]>>
QSub(a, b) == QAdd(a, QNeg(b))
QMul(a, b) ==
    IF QIsNaN(a) \/ QIsNaN(b) THEN QNaN
    ELSE IF a[1] = 0 \/ b[1] = 0 THEN QZero
    ELSE LET g1 == Gcd(Abs(a[1]), b[2])
             g2 == Gcd(Abs(b[1]), a[2])
         IN  <<(a[1] \div g1) * (b[1] \div g2), (a[2] \div g2) * (b[2] \div g1)>>
QAbs(a) == <<Abs(a[1]), a[2]>>
QLess(a, b) == a[1] * b[2] < b[1] * a[2]
QLeq(a, b) == a[1] * b[2] <= b[1] * a[2]
\* a / b: 0/0 is NaN.  x/0 with x # 0 (an infinity) does not occur in the
\* estimators, whose denominators are sums of non-negative terms that vanish
\* only together with the numerator.
QDiv(a, b) ==
    IF QIsNaN(a) \/ QIsNaN(b) \/ b[1] = 0 THEN QNaN ELSE Q(a[1] * b[2], a[2] * b[1])

RECURSIVE QSum(_)
QSum(s) == IF s = <<>> THEN QZero ELSE QAdd(s[1], QSum(Tail(s)))

RECURSIVE QProd(_)
QProd(s) == IF s = <<>> THEN QOne ELSE QMul(s[1], QProd(Tail(s)))

(***************************************************************************)
(* Polynomials in eps, without trailing zero coefficients.                 *)
(***************************************************************************)
RECURSIVE PTrim(_)
PTrim(p) ==
    IF p = <<>> THEN p
    ELSE IF p[Len(p)] = QZero THEN PTrim(SubSeq(p, 1, Len(p) - 1)) ELSE p

PCoef(p, k) == IF k >= 1 /\ k <= Len(p) THEN p[k] ELSE QZero
PConst(q) == PTrim(<<q>>)
PAdd(p, r) ==
    LET n == IF Len(p) > Len(r) THEN Len(p) ELSE Len(r)
    IN  PTrim([k \in 1..n |-> QAdd(PCoef(p, k), PCoef(r, k))])
PScale(q, p) == PTrim([k \in 1..Len(p) |-> QMul(q, p[k])])
PMul(p, r) ==
    IF p = <<>> \/ r = <<>> THEN <<>>
    ELSE PTrim([k \in 1..(Len(p) + Len(r) - 1) |->
            QSum([i \in 1..Len(p) |-> QMul(p[i], PCoef(r, k - i + 1))])])


(***************************************************************************)
(* Results of the matrix inversion: quotients of polynomials in eps, or    *)
(* NaN.  The inverse of a matrix is its adjugate over its determinant, so  *)
(* all its entries share the denominator.                                  *)
(***************************************************************************)
RF(num, den) == [num |-> num, den |-> den]
RNaN == RF(<<>>, <<>>)
RIsNaN(a) == a.den = <<>>
RFAdd(a, b) ==
    IF RIsNaN(a) \/ RIsNaN(b) THEN RNaN
    ELSE IF a.den = b.den THEN RF(PAdd(a.num, b.num), a.den)
    ELSE RF(PAdd(PMul(a.num, b.den), PMul(b.num, a.den)), PMul(a.den, b.den))
RFScale(q, a) == IF RIsNaN(a) \/ QIsNaN(q) THEN RNaN ELSE RF(PScale(q, a.num), a.den)
\* equality of values; two undefined results are the same result
RFEq(a, b) ==
    IF RIsNaN(a) \/ RIsNaN(b) THEN RIsNaN(a) /\ RIsNaN(b)
    ELSE IF a.den = b.den THEN a.num = b.num
    ELSE PMul(a.num, b.den) = PMul(b.num, a.den)

RECURSIVE RFSum(_)
RFSum(s) == IF Len(s) = 1 THEN s[1] ELSE RFAdd(s[1], RFSum(Tail(s)))

(***************************************************************************)
(* Arrays.  A vector is a sequence, a matrix a sequence of rows.           *)
(***************************************************************************)
\* X.mean(0): the mean of every column
Mean0(X) ==
    [j \in 1..Len(X[1]) |-> QDiv(QSum([i \in 1..Len(X) |-> X[i][j]]), QInt(Len(X)))]

\* jnp.abs(X - X.mean(0)).  The result is flattened in row-major order.
AbsDev(X) ==
    LET m == Mean0(X)
        D == Len(X[1])
    IN  [k \in 1..(Len(X) * D) |->
            QAbs(QSub(X[((k - 1) \div D) + 1][((k - 1) % D) + 1], m[((k - 1) % D) + 1]))]

RECURSIVE Insert(_, _)
Insert(x, s) ==
    IF s = <<>> THEN <<x>>
    ELSE IF QLeq(x, s[1]) THEN <<x>> \o s ELSE <<s[1]>> \o Insert(x, Tail(s))

RECURSIVE Sort(_)
Sort(s) == IF s = <<>> THEN s ELSE Insert(s[1], Sort(Tail(s)))

\* jnp.median over all entries: the middle entry of the sorted entries, or the
\* mean of the two middle entries when their number is even
Median(v) ==
    LET s == Sort(v)
        n == Len(s)
    IN  IF n % 2 = 1 THEN s[(n + 1) \div 2]
        ELSE QDiv(QAdd(s[n \div 2], s[(n \div 2) + 1]), QInt(2))

\* the regulariser: eps = 1e-6 is the indeterminate of the polynomials
eps == <<QZero, QOne>>

\* K + eps * jnp.eye(N)
PNaN == <<QNaN>>
AddEpsEye(K, N) ==
    [i \in 1..N |-> [j \in 1..N |->
        IF QIsNaN(K[i][j]) THEN PNaN
        ELSE IF i = j THEN PAdd(PConst(K[i][j]), eps) ELSE PConst(K[i][j])]]

Without(s, k) == [i \in 1..(Len(s) - 1) |-> IF i < k THEN s[i] ELSE s[i + 1]]

\* determinant of the rows and columns `rows`, `cols` of M, by the first row
RECURSIVE Det(_, _, _)
Det(M, rows, cols) ==
    IF rows = <<>> THEN PConst(QOne)
    ELSE LET term(k) ==
                 PScale(IF k % 2 = 1 THEN QOne ELSE QNeg(QOne),
                        PMul(M[rows[1]][cols[k]], Det(M, Tail(rows), Without(cols, k))))
             RECURSIVE sum(_)
             sum(k) == IF k = 0 THEN <<>> ELSE PAdd(term(k), sum(k - 1))
         IN  sum(Len(cols))

\* jnp.linalg.inv
\* the elimination spreads a NaN entry, or a zero pivot, over the result
Inv(M) ==
    LET N == Len(M)
        idx == [i \in 1..N |-> i]
        det == Det(M, idx, idx)
        cof(i, j) ==
            PScale(IF (i + j) % 2 = 0 THEN QOne ELSE QNeg(QOne),
                   Det(M, Without(idx, j), Without(idx, i)))
    IN  IF (\E i, j \in 1..N : M[i][j] = PNaN) \/ det = <<>>
        THEN [i \in 1..N |-> [j \in 1..N |-> RNaN]]
        ELSE [i \in 1..N |-> [j \in 1..N |-> RF(cof(i, j), det)]]

(***************************************************************************)
(* State.  A scenario is a short sequence of calls of one estimator (or of *)
(* its wrapper) made by a caller; nothing of a call outlives it but the    *)
(* value it returned.                                                      *)
(***************************************************************************)
VARIABLES
    fn,        \* the estimator the scenario calls
    kme_ndim,  \* axes of the arrays the embedding library returns: 1 for (N,), 2 for (N, 1)
    args,      \* the argument tuple of each call of the scenario, in call order
    coef,      \* the scalars <<c1, c2>> the caller combined the function values with
    pc,        \* position of the call in progress
    lane_in,   \* vmap: the arguments each batch element was called with
    lane_out,  \* vmap: the value each batch element returned
    ret        \* the values returned so far, in call order

vars == <<fn, kme_ndim, args, coef, pc, lane_in, lane_out, ret>>

(***************************************************************************)
(* utils.kernels.  The kernel and embedding functions are imported, not    *)
(* defined, by kernel_means.py.  They are modelled at their interface:     *)
(* gram(X, Y, l) is a matrix with one entry per pair of points, symmetric  *)
(* and with unit diagonal when X = Y; embed(params, l, X) is an array with *)
(* one entry per point.  Both divide by the length scale, so that they are *)
(* undefined (0/0) at a point pair of distance 0 when l = 0.  The closed   *)
(* forms are rational stand-ins for the exponentials of the library.       *)
(***************************************************************************)
QSq(a) == QMul(a, a)
SqDist(x, y) == QSum([j \in 1..Len(x) |-> QSq(QSub(x[j], y[j]))])
L1Dist(x, y) == QSum([j \in 1..Len(x) |-> QAbs(QSub(x[j], y[j]))])
\* l / (l + r)
Decay(l, r) == QDiv(l, QAdd(l, r))
Two == QInt(2)

my_RBF(X, Y, l) ==
    LET k(x, y) ==
            Decay(QSq(l), SqDist(x, y))
    IN  [i \in 1..Len(X) |-> [j \in 1..Len(Y) |-> k(X[i], Y[j])]]
my_Matern_32(X, Y, l) ==
    LET k(x, y) ==
            Decay(QMul(Two, l), L1Dist(x, y))
    IN  [i \in 1..Len(X) |-> [j \in 1..Len(Y) |-> k(X[i], Y[j])]]
my_Matern_12(X, Y, l) ==
    LET k(x, y) ==
            Decay(l, L1Dist(x, y))
    IN  [i \in 1..Len(X) |-> [j \in 1..Len(Y) |-> k(X[i], Y[j])]]
my_Matern_12_product(X, Y, l) ==
    LET k(x, y) ==
            QProd([j \in 1..Len(x) |-> Decay(l[j], QAbs(QSub(x[j], y[j])))])
    IN  [i \in 1..Len(X) |-> [j \in 1..Len(Y) |-> k(X[i], Y[j])]]
my_Matern_32_product(X, Y, l) ==
    LET k(x, y) ==
            QProd([j \in 1..Len(x) |-> Decay(QMul(Two, l[j]), QAbs(QSub(x[j], y[j])))])
    IN  [i \in 1..Len(X) |-> [j \in 1..Len(Y) |-> k(X[i], Y[j])]]
\* a kernel of log x: undefined at x <= 0
my_log_RBF(X, Y, l) ==
    LET k(x, y) ==
            IF \E j \in 1..Len(x) : x[j][1] <= 0 \/ y[j][1] <= 0 THEN QNaN
            ELSE Decay(l, QSum([j \in 1..Len(x) |->
                    QDiv(QSq(QSub(x[j], y[j])), QMul(x[j], y[j]))]))
    IN  [i \in 1..Len(X) |-> [j \in 1..Len(Y) |-> k(X[i], Y[j])]]

\* an array the embedding library returns: N entries, of shape (N,) or (N, 1)
KmeArray(data) ==
    [shape |-> IF kme_ndim = 1 THEN <<Len(data)>> ELSE <<Len(data), 1>>, data |-> data]
Trace(M) == QSum([j \in 1..Len(M) |-> M[j][j]])

kme_RBF_Gaussian(mu, Sigma, l, y) ==
    KmeArray([i \in 1..Len(y) |-> Decay(QSq(l), QAdd(Trace(Sigma), SqDist(y[i], mu)))])
kme_RBF_uniform(a, b, l, y) ==
    KmeArray([i \in 1..Len(y) |->
        QProd([j \in 1..Len(y[i]) |->
            Decay(QSq(l), QAdd(QSq(QSub(y[i][j], a)), QSq(QSub(b, y[i][j]))))])])
kme_Matern_32_Gaussian(l, y) ==
    KmeArray([i \in 1..Len(y) |->
        Decay(QMul(Two, l), QAdd(QOne, QSum([j \in 1..Len(y[i]) |-> QAbs(y[i][j])])))])
kme_Matern_12_Gaussian(l, y) ==
    KmeArray([i \in 1..Len(y) |->
        QProd([j \in 1..Len(y[i]) |-> Decay(l[j], QAdd(QOne, QAbs(y[i][j])))])])
kme_Matern_32_Uniform(a, b, l, y) ==
    KmeArray([i \in 1..Len(y) |->
        QProd([j \in 1..Len(y[i]) |->
            Decay(QMul(Two, l[j]),
                  QAdd(QAbs(QSub(y[i][j], a[j])), QAbs(QSub(b[j], y[i][j]))))])])
kme_Matern_12_Uniform(a, b, l, y) ==
    KmeArray([i \in 1..Len(y) |->
        Decay(l, QSum([j \in 1..Len(y[i]) |->
            QAdd(QAbs(QSub(y[i][j], a)), QAbs(QSub(b, y[i][j])))]))])
kme_log_normal_log_RBF(mu, std, y, l) ==
    KmeArray([i \in 1..Len(y) |->
        Decay(l, QAdd(QSq(std), QSum([j \in 1..Len(y[i]) |-> QSq(QSub(y[i][j], mu))])))])

(***************************************************************************)
(* Array expressions of the estimators.                                    *)
(***************************************************************************)
Reverse(s) == [i \in 1..Len(s) |-> s[Len(s) + 1 - i]]
\* A * array
AScale(A, arr) == [shape |-> arr.shape, data |-> [i \in 1..Len(arr.data) |-> QMul(A, arr.data[i])]]
AScaleM(A, M) == [i \in 1..Len(M) |-> [j \in 1..Len(M[i]) |-> QMul(A, M[i][j])]]
\* phi.T of a vector (N,) or of a column (N, 1)
Transpose(arr) == [shape |-> Reverse(arr.shape), data |-> arr.data]
\* row @ M for a vector (N,) or a row (1, N) and a matrix M (N, N)
MatMul(row, M) ==
    [shape |-> row.shape,
     data |-> [j \in 1..Len(M) |->
                 RFSum([i \in 1..Len(M) |-> RFScale(row.data[i], M[i][j])])]]
\* row @ v for a vector (N,) or a row (1, N) and a vector v (N,): the axis of
\* length N is contracted
MatVec(row, v) ==
    [shape |-> SubSeq(row.shape, 1, Len(row.shape) - 1),
     data |-> RFSum([j \in 1..Len(v) |-> RFScale(v[j], row.data[j])])]
\* .squeeze(): the axes of length 1 are removed
Squeeze(arr) == [shape |-> SelectSeq(arr.shape, LAMBDA n : n # 1), data |-> arr.data]
Ones(D) == [j \in 1..D |-> QOne]
VScale(q, v) == [j \in 1..Len(v) |-> QMul(q, v[j])]

(***************************************************************************)
(* The estimators.  Each returns I_NKQ; the record adds the locals A and l *)
(* and the length scale handed to the kernel and to the embedding.         *)
(***************************************************************************)
Returned(I_NKQ, A, l_kernel, l_kme) ==
    [I_NKQ |-> I_NKQ, A |-> A, l_kernel |-> l_kernel, l_kme |-> l_kme]

KQ_RBF_Gaussian(X, f_X, mu_X_theta, var_X_theta) ==
    LET N == Len(X)
        l == Median(AbsDev(X))
        A == QOne
        K == AScaleM(A, my_RBF(X, X, l))
        K_inv == Inv(AddEpsEye(K, N))
        phi == AScale(A, kme_RBF_Gaussian(mu_X_theta, var_X_theta, l, X))
        I_NKQ == MatVec(MatMul(Transpose(phi), K_inv), f_X)
    IN  Returned(I_NKQ, A, l, l)

\* the median heuristic taken of the function values
KQ_RBF_Uniform_ScaleFromValues(X, f_X, a, b) ==
    LET N == Len(X)
        A == QOne
        l == Median(AbsDev([i \in 1..N |-> <<f_X[i]>>]))
        K == AScaleM(A, my_RBF(X, X, l))
        K_inv == Inv(AddEpsEye(K, N))
        phi == AScale(A, kme_RBF_uniform(a, b, l, X))
        I_NKQ == MatVec(MatMul(Transpose(phi), K_inv), f_X)
    IN  Returned(Squeeze(I_NKQ), A, l, l)

KQ_RBF_Uniform(X, f_X, a, b) ==
    LET N == Len(X)
        A == QOne
        l == Median(AbsDev(X))
        K == AScaleM(A, my_RBF(X, X, l))
        K_inv == Inv(AddEpsEye(K, N))
        phi == AScale(A, kme_RBF_uniform(a, b, l, X))
        I_NKQ == MatVec(MatMul(Transpose(phi), K_inv), f_X)
    IN  Returned(Squeeze(I_NKQ), A, l, l)

KQ_Matern_32_Gaussian(X, f_X) ==
    LET N == Len(X)
        A == QOne
        l == Median(AbsDev(X))
        K == AScaleM(A, my_Matern_32(X, X, l))
        K_inv == Inv(AddEpsEye(K, N))
        phi == AScale(A, kme_Matern_32_Gaussian(l, X))
        I_NKQ == MatVec(MatMul(Transpose(phi), K_inv), f_X)
    IN  Returned(Squeeze(I_NKQ), A, l, l)

KQ_Matern_12_Gaussian(X, f_X) ==
    LET N == Len(X)
        D == Len(X[1])
        A == QOne
        l == VScale(QOne, Ones(D))
        K == AScaleM(A, my_Matern_12_product(X, X, l))
        K_inv == Inv(AddEpsEye(K, N))
        phi == AScale(A, kme_Matern_12_Gaussian(l, X))
        I_NKQ == MatVec(MatMul(Transpose(phi), K_inv), f_X)
    IN  Returned(Squeeze(I_NKQ), A, l, l)

KQ_Matern_32_Uniform(X, f_X, a, b) ==
    LET N == Len(X)
        D == Len(X[1])
        A == QOne
        l == VScale(QInt(3), Ones(D))
        K == AScaleM(A, my_Matern_32_product(X, X, l))
        K_inv == Inv(AddEpsEye(K, N))
        phi == AScale(A, kme_Matern_32_Uniform(a, b, l, X))
        I_NKQ == MatVec(MatMul(Transpose(phi), K_inv), f_X)
    IN  Returned(Squeeze(I_NKQ), A, l, l)

\* the length scale l = 1. in place of the median heuristic
KQ_Matern_12_Uniform_UnitScale(X, f_X, a, b) ==
    LET N == Len(X)
        A == QOne
        l == QOne
        K == AScaleM(A, my_Matern_12(X, X, l))
        K_inv == Inv(AddEpsEye(K, N))
        phi == AScale(A, kme_Matern_12_Uniform(a, b, l, X))
        I_NKQ == MatVec(MatMul(Transpose(phi), K_inv), f_X)
    IN  Returned(Squeeze(I_NKQ), A, l, l)

KQ_Matern_12_Uniform(X, f_X, a, b) ==
    LET N == Len(X)
        A == QOne
        l == Median(AbsDev(X))
        K == AScaleM(A, my_Matern_12(X, X, l))
        K_inv == Inv(AddEpsEye(K, N))
        phi == AScale(A, kme_Matern_12_Uniform(a, b, l, X))
        I_NKQ == MatVec(MatMul(Transpose(phi), K_inv), f_X)
    IN  Returned(Squeeze(I_NKQ), A, l, l)

KQ_log_RBF_log_Gaussian(X, f_X, mu, std) ==
    LET N == Len(X)
        l == Q(1, 10)
        A == QOne
        K == AScaleM(A, my_log_RBF(X, X, l))
        K_inv == Inv(AddEpsEye(K, N))
        phi == AScale(A, kme_log_normal_log_RBF(mu, std, X, l))
        I_NKQ == MatVec(MatMul(Transpose(phi), K_inv), f_X)
    IN  Returned(I_NKQ, A, l, l)

Estimators ==
    {"KQ_RBF_Gaussian", "KQ_RBF_Uniform", "KQ_Matern_32_Gaussian", "KQ_Matern_12_Gaussian",
     "KQ_Matern_32_Uniform", "KQ_Matern_12_Uniform", "KQ_log_RBF_log_Gaussian"}

\* the call of the estimator named f on the argument tuple a
Apply(f, a) ==
    CASE f = "KQ_RBF_Gaussian" -> KQ_RBF_Gaussian(a[1], a[2], a[3], a[4])
      [] f = "KQ_RBF_Uniform" -> KQ_RBF_Uniform(a[1], a[2], a[3], a[4])
      [] f = "KQ_Matern_32_Gaussian" -> KQ_Matern_32_Gaussian(a[1], a[2])
      [] f = "KQ_Matern_12_Gaussian" -> KQ_Matern_12_Gaussian(a[1], a[2])
      [] f = "KQ_Matern_32_Uniform" -> KQ_Matern_32_Uniform(a[1], a[2], a[3], a[4])
      [] f = "KQ_Matern_12_Uniform" -> KQ_Matern_12_Uniform(a[1], a[2], a[3], a[4])
      [] f = "KQ_log_RBF_log_Gaussian" -> KQ_log_RBF_log_Gaussian(a[1], a[2], a[3], a[4])

(***************************************************************************)
(* jax.vmap(fun, in_axes) called on a tuple a of arguments.  in_axes must   *)
(* have one entry per argument,                                            *)
(* otherwise the call raises ValueError before fun is entered.  Batch      *)
(* element t is fun called with a[k][t] for the arguments mapped over axis *)
(* 0 and with a[k] itself for the arguments whose in_axes entry is None;   *)
(* the batch elements are independent of one another and the model runs    *)
(* them in any order.  The results are stacked along a new leading axis.   *)
(***************************************************************************)
None == "None"
Ax0 == "0"
ValueError == [exc |-> "ValueError"]
Raised(r) == "exc" \in DOMAIN r

Mapped(in_axes) == {k \in 1..Len(in_axes) : in_axes[k] = Ax0}
BatchSize(in_axes, a) == Len(a[CHOOSE k \in Mapped(in_axes) : TRUE])
\* batch element t given the slice that follows slice t
LaneArgs_Shifted(in_axes, a, t) ==
    [k \in 1..Len(a) |-> IF in_axes[k] = Ax0 THEN a[k][(t % Len(a[k])) + 1] ELSE a[k]]
LaneArgs(in_axes, a, t) ==
    [k \in 1..Len(a) |-> IF in_axes[k] = Ax0 THEN a[k][t] ELSE a[k]]
\* the results stacked last element first
Stack_Reversed(outs) ==
    [I_NKQ |-> [shape |-> <<Len(outs)>> \o outs[1].I_NKQ.shape,
                data |-> [t \in 1..Len(outs) |-> outs[Len(outs) + 1 - t].I_NKQ.data]]]
Stack(outs) ==
    [I_NKQ |-> [shape |-> <<Len(outs)>> \o outs[1].I_NKQ.shape,
                data |-> [t \in 1..Len(outs) |-> outs[t].I_NKQ.data]]]

\* the argument tuple of the call in progress
CurArgs == args[Len(ret) + 1]

Vmap(in_axes) ==
    /\ pc = "call"
    /\ Len(ret) < Len(args)
    /\ IF Len(in_axes) # Len(CurArgs)
       THEN /\ ret' = Append(ret, ValueError)
            /\ UNCHANGED <<pc, lane_in, lane_out>>
       ELSE /\ pc' = "vmap"
            /\ lane_in' = [t \in 1..BatchSize(in_axes, CurArgs) |->
                             LaneArgs(in_axes, CurArgs, t)]
            /\ lane_out' = <<>>
            /\ UNCHANGED ret
    /\ UNCHANGED <<fn, kme_ndim, args, coef>>

VmapLane(t) ==
    /\ pc = "vmap"
    /\ t \in DOMAIN lane_in
    /\ t \notin DOMAIN lane_out
    /\ lane_out' = (t :> Apply(fn, lane_in[t])) @@ lane_out
    /\ UNCHANGED <<fn, kme_ndim, args, coef, pc, lane_in, ret>>

VmapReturn ==
    /\ pc = "vmap"
    /\ DOMAIN lane_out = DOMAIN lane_in
    /\ ret' = Append(ret, Stack(lane_out))
    /\ pc' = "call"
    /\ lane_in' = <<>>
    /\ lane_out' = <<>>
    /\ UNCHANGED <<fn, kme_ndim, args, coef>>

KQ_RBF_Gaussian_Vectorized ==
    fn = "KQ_RBF_Gaussian" /\ Vmap(<<None, Ax0, Ax0, Ax0, Ax0>>)
KQ_RBF_Uniform_Vectorized ==
    fn = "KQ_RBF_Uniform" /\ Vmap(<<Ax0, Ax0, None, None>>)
KQ_Matern_32_Gaussian_Vectorized ==
    fn = "KQ_Matern_32_Gaussian" /\ Vmap(<<None, Ax0, Ax0>>)
KQ_Matern_12_Gaussian_Vectorized ==
    fn = "KQ_Matern_12_Gaussian" /\ Vmap(<<Ax0, Ax0>>)
KQ_Matern_32_Uniform_Vectorized ==
    fn = "KQ_Matern_32_Uniform" /\ Vmap(<<Ax0, Ax0, Ax0, Ax0>>)
KQ_Matern_12_Uniform_Vectorized ==
    fn = "KQ_Matern_12_Uniform" /\ Vmap(<<Ax0, Ax0, None, None>>)
KQ_log_RBF_log_Gaussian_Vectorized ==
    fn = "KQ_log_RBF_log_Gaussian" /\ Vmap(<<Ax0, Ax0, Ax0, Ax0>>)

\* a caller calls the estimator itself
Estimate ==
    /\ pc = "call"
    /\ Len(ret) < Len(args)
    /\ ret' = Append(ret, Apply(fn, CurArgs))
    /\ UNCHANGED <<fn, kme_ndim, args, coef, pc, lane_in, lane_out>>

(***************************************************************************)
(* Inputs: the arguments the docstrings describe, over small value sets.   *)
(***************************************************************************)
QSet(S) == {QInt(x) : x \in S}
\* the estimators documented for one dimension only take D = 1
DimsOf(f) ==
    IF f \in {"KQ_RBF_Gaussian", "KQ_RBF_Uniform", "KQ_Matern_32_Uniform"} THEN Dims ELSE {1}
\* the log kernel takes positive points
PointsOf(f) ==
    IF f = "KQ_log_RBF_log_Gaussian" THEN {QAdd(x, QOne) : x \in QSet(XVals)} ELSE QSet(XVals)
Eye(D) == [i \in 1..D |-> [j \in 1..D |-> IF i = j THEN QOne ELSE QZero]]
Fill(q, D) == [j \in 1..D |-> q]
\* the measure parameters, in argument order
ParamsOf(f, D) ==
    CASE f = "KQ_RBF_Gaussian" -> {<<Fill(QInt(m), D), Eye(D)>> : m \in {0, 1}}
      [] f \in {"KQ_RBF_Uniform", "KQ_Matern_12_Uniform"} ->
            {<<QInt(0), QInt(1)>>, <<QInt(-1), QInt(2)>>}
      [] f = "KQ_Matern_32_Uniform" ->
            {<<Fill(QInt(0), D), Fill(QInt(1), D)>>, <<Fill(QInt(-1), D), Fill(QInt(2), D)>>}
      [] f = "KQ_log_RBF_log_Gaussian" -> {<<QInt(0), QInt(1)>>, <<QInt(1), QInt(2)>>}
      [] OTHER -> {<<>>}

SampleSets(f, N, D) == [1..N -> [1..D -> PointsOf(f)]]
\* f_X: the values at the points of X of the integrands 1 + sum(x) and 2 - sum(x)
FunctionValues(X) ==
    {[i \in 1..Len(X) |-> QAdd(QOne, QSum(X[i]))], [i \in 1..Len(X) |-> QSub(Two, QSum(X[i]))]}
\* the argument tuples of one call of estimator f on N points in D dimensions
SingleArgs(f, N, D) ==
    UNION {{<<X, f_X>> \o p : f_X \in FunctionValues(X), p \in ParamsOf(f, D)}
           : X \in SampleSets(f, N, D)}

\* the arguments the wrapper's docstring gives one value for the whole batch
SharedOf(f) == IF f \in {"KQ_RBF_Uniform", "KQ_Matern_12_Uniform"} THEN {3, 4} ELSE {}
\* the batched arguments whose slices are the argument tuples `lanes`
Batch(f, lanes) ==
    [k \in 1..Len(lanes[1]) |->
        IF k \in SharedOf(f) THEN lanes[1][k] ELSE [t \in 1..Len(lanes) |-> lanes[t][k]]]
Agree(f, lanes) ==
    \A t \in 1..Len(lanes) : \A k \in SharedOf(f) : lanes[t][k] = lanes[1][k]
\* the slices of the batches: one point, or two distinct points, in one dimension
BatchSizes == {1, 2}
Slices(f, N) ==
    {a \in SingleArgs(f, N, 1) : \A i, j \in 1..N : a[1][i] = a[1][j] => i = j}
BatchedArgs(f, T) ==
    UNION {{Batch(f, lanes) : lanes \in {ls \in [1..T -> Slices(f, N)] : Agree(f, ls)}}
           : N \in BatchSizes}

Init ==
    /\ fn \in Estimators
    /\ kme_ndim \in {1, 2}
    /\ \E T \in 1..MaxT : args \in {<<b>> : b \in BatchedArgs(fn, T)}
    /\ coef = <<>>
    /\ pc = "call"
    /\ lane_in = <<>>
    /\ lane_out = <<>>
    /\ ret = <<>>

Next ==
    \/ KQ_RBF_Gaussian_Vectorized
    \/ KQ_RBF_Uniform_Vectorized
    \/ KQ_Matern_32_Gaussian_Vectorized
    \/ KQ_Matern_12_Gaussian_Vectorized
    \/ KQ_Matern_32_Uniform_Vectorized
    \/ KQ_Matern_12_Uniform_Vectorized
    \/ KQ_log_RBF_log_Gaussian_Vectorized
    \/ \E t \in 1..MaxT : VmapLane(t)
    \/ VmapReturn

Spec == Init /\ [][Next]_vars

(***************************************************************************)
(* Properties of the batched wrappers.                                     *)
(***************************************************************************)
\* slice t of every per-batch argument, together with the shared arguments
DocSlice(f, a, t) == [k \in 1..Len(a) |-> IF k \in SharedOf(f) THEN a[k] ELSE a[k][t]]
\* the batch size T of batched arguments: the leading axis of X
BatchT(a) == Len(a[1])
\* the slices processed one after the other, in index order
RECURSIVE Sequential(_, _, _)
Sequential(f, a, t) ==
    IF t = 0 THEN <<>> ELSE Append(Sequential(f, a, t - 1), Apply(f, DocSlice(f, a, t)).I_NKQ.data)
SameValues(u, v) == Len(u) = Len(v) /\ \A i \in 1..Len(u) : RFEq(u[i], v[i])

\* C1: every wrapper, called on well-shaped batched inputs, completes and returns
\* a length-T result whose element t is the estimator's result on slice t.
C1_BatchEqualsSingle ==
    \A c \in 1..Len(ret) :
        /\ ~Raised(ret[c])
        /\ ret[c].I_NKQ.shape[1] = BatchT(args[c])
        /\ \A t \in 1..BatchT(args[c]) :
              RFEq(ret[c].I_NKQ.data[t], Apply(fn, DocSlice(fn, args[c], t)).I_NKQ.data)

\* C2: whatever the order in which the batch elements run, every finished element i
\* holds the estimate of input slice i, and once all have finished the output is
\* the one of processing the slices sequentially in index order.
C2_OrderIrrelevant ==
    /\ pc = "vmap" =>
          \A i \in DOMAIN lane_out :
              RFEq(lane_out[i].I_NKQ.data, Apply(fn, DocSlice(fn, CurArgs, i)).I_NKQ.data)
    /\ \A c \in 1..Len(ret) :
          ~Raised(ret[c]) =>
              SameValues(ret[c].I_NKQ.data, Sequential(fn, args[c], BatchT(args[c])))

\* a batch of two slices with different estimates has been returned
C2_Witness ==
    /\ Len(ret) = 1
    /\ ~Raised(ret[1])
    /\ Len(ret[1].I_NKQ.data) = 2
    /\ ~RFEq(ret[1].I_NKQ.data[1], ret[1].I_NKQ.data[2])

\* C8: every wrapper maps over the first index of X and f_X (and of the measure
\* parameters, but for the scalar bounds a, b of the RBF-Uniform and
\* Matern-1/2-Uniform wrappers): batch element t is computed from slice t.
C8_SlicedPerElement ==
    /\ \A c \in 1..Len(ret) : ~Raised(ret[c])
    /\ pc = "vmap" =>
          /\ DOMAIN lane_in = 1..BatchT(CurArgs)
          /\ \A t \in DOMAIN lane_in : lane_in[t] = DocSlice(fn, CurArgs, t)

\* C10: every estimator returns a zero-dimensional scalar, whatever the shape of
\* the embedding, so that every wrapper returns an array of shape (T,).
C10_ScalarResult ==
    /\ \A t \in DOMAIN lane_out : lane_out[t].I_NKQ.shape = <<>>
    /\ \A c \in 1..Len(ret) :
          ~Raised(ret[c]) => ret[c].I_NKQ.shape = <<BatchT(args[c])>>

(***************************************************************************)
(* Two calls of one wrapper whose batches differ in the last slice.        *)
(***************************************************************************)
PairArgs(f) == Slices(f, 2)

InitPair ==
    /\ fn \in Estimators
    /\ kme_ndim = 1
    /\ \E T \in 2..MaxT : \E lanes \in [1..T -> PairArgs(fn)] : \E s \in PairArgs(fn) :
          /\ Agree(fn, lanes)
          /\ Agree(fn, [lanes EXCEPT ![T] = s])
          /\ s # lanes[T]
          /\ args = <<Batch(fn, lanes), Batch(fn, [lanes EXCEPT ![T] = s])>>
    /\ coef = <<>>
    /\ pc = "call"
    /\ lane_in = <<>>
    /\ lane_out = <<>>
    /\ ret = <<>>

SpecPair == InitPair /\ [][Next]_vars

\* the two batches agree on slice i of every per-batch argument and on the
\* shared arguments
AgreeOn(f, a, b, i) == BatchT(a) = BatchT(b) /\ DocSlice(f, a, i) = DocSlice(f, b, i)

\* C3: two calls of a wrapper that agree on the shared arguments and on slice i
\* of every per-batch argument return the same element i, whatever the other
\* slices hold.
C3_ElementsIndependent ==
    (Len(ret) = 2 /\ ~Raised(ret[1]) /\ ~Raised(ret[2])) =>
        \A i \in 1..BatchT(args[1]) :
            AgreeOn(fn, args[1], args[2], i) =>
                RFEq(ret[1].I_NKQ.data[i], ret[2].I_NKQ.data[i])

\* both calls returned; they agree on slice 1, differ on slice 2, and so do
\* their results
C3_Witness ==
    /\ Len(ret) = 2
    /\ ~Raised(ret[1])
    /\ ~Raised(ret[2])
    /\ AgreeOn(fn, args[1], args[2], 1)
    /\ ~AgreeOn(fn, args[1], args[2], 2)
    /\ ~RFEq(ret[1].I_NKQ.data[2], ret[2].I_NKQ.data[2])
    /\ ~RIsNaN(ret[1].I_NKQ.data[1])

(***************************************************************************)
(* Calls of an estimator itself: on function values f1, on f2 and on       *)
(* c1 * f1 + c2 * f2, with the same sample set and measure parameters.     *)
(***************************************************************************)
Coefs == {<<QInt(2), QInt(-1)>>, <<Q(1, 2), QInt(3)>>}
Combine(c, f1, f2) == [i \in 1..Len(f1) |-> QAdd(QMul(c[1], f1[i]), QMul(c[2], f2[i]))]

InitSingle ==
    /\ fn \in Estimators
    /\ kme_ndim \in {1, 2}
    /\ coef \in Coefs
    /\ \E N \in 1..MaxN : \E D \in DimsOf(fn) :
       \E X \in SampleSets(fn, N, D) : \E p \in ParamsOf(fn, D) :
       \E f1 \in FunctionValues(X) : \E f2 \in FunctionValues(X) :
          args = <<<<X, f1>> \o p, <<X, f2>> \o p, <<X, Combine(coef, f1, f2)>> \o p>>
    /\ pc = "call"
    /\ lane_in = <<>>
    /\ lane_out = <<>>
    /\ ret = <<>>

NextSingle == Estimate

SpecSingle == InitSingle /\ [][NextSingle]_vars

(***************************************************************************)
(* Properties of the estimators.                                           *)
(***************************************************************************)
NumPoints(a) == Len(a[1])
NumDims(a) == Len(a[1][1])
Value(r) == r.I_NKQ.data

\* C4: with the sample set and the measure parameters fixed, the estimate of
\* c1 * f1 + c2 * f2 is c1 times the estimate of f1 plus c2 times the estimate of
\* f2, and the length scale and the amplitude are the same in the three calls.
C4_Linear ==
    Len(ret) = 3 =>
        /\ RFEq(Value(ret[3]),
                RFAdd(RFScale(coef[1], Value(ret[1])), RFScale(coef[2], Value(ret[2]))))
        /\ ret[1].l_kernel = ret[3].l_kernel /\ ret[2].l_kernel = ret[3].l_kernel
        /\ ret[1].l_kme = ret[3].l_kme /\ ret[2].l_kme = ret[3].l_kme
        /\ ret[1].A = ret[3].A /\ ret[2].A = ret[3].A

\* three defined estimates on two points, of different function values
C4_Witness ==
    /\ Len(ret) = 3
    /\ NumPoints(args[1]) = 2
    /\ args[1][2] # args[2][2]
    /\ ~RIsNaN(Value(ret[3]))
    /\ ~RFEq(Value(ret[1]), Value(ret[2]))
    /\ ~RFEq(Value(ret[3]), Value(ret[1]))

\* the kernel matrix and the embedding of estimator f at length scale l
KernelOf(f, X, l) ==
    CASE f \in {"KQ_RBF_Gaussian", "KQ_RBF_Uniform"} -> my_RBF(X, X, l)
      [] f = "KQ_Matern_32_Gaussian" -> my_Matern_32(X, X, l)
      [] f = "KQ_Matern_12_Gaussian" -> my_Matern_12_product(X, X, l)
      [] f = "KQ_Matern_32_Uniform" -> my_Matern_32_product(X, X, l)
      [] f = "KQ_Matern_12_Uniform" -> my_Matern_12(X, X, l)
      [] f = "KQ_log_RBF_log_Gaussian" -> my_log_RBF(X, X, l)
EmbeddingOf(f, a, l) ==
    CASE f = "KQ_RBF_Gaussian" -> kme_RBF_Gaussian(a[3], a[4], l, a[1])
      [] f = "KQ_RBF_Uniform" -> kme_RBF_uniform(a[3], a[4], l, a[1])
      [] f = "KQ_Matern_32_Gaussian" -> kme_Matern_32_Gaussian(l, a[1])
      [] f = "KQ_Matern_12_Gaussian" -> kme_Matern_12_Gaussian(l, a[1])
      [] f = "KQ_Matern_32_Uniform" -> kme_Matern_32_Uniform(a[3], a[4], l, a[1])
      [] f = "KQ_Matern_12_Uniform" -> kme_Matern_12_Uniform(a[3], a[4], l, a[1])
      [] f = "KQ_log_RBF_log_Gaussian" -> kme_log_normal_log_RBF(a[3], a[4], a[1], l)

\* (A * embedding_value / (A * kernel_value + eps)) * f_X[0] with A = 1
SinglePointValue(f, a, l) ==
    LET kernel_value == KernelOf(f, a[1], l)[1][1]
        embedding_value == EmbeddingOf(f, a, l).data[1]
    IN  IF QIsNaN(kernel_value) \/ QIsNaN(embedding_value) THEN RNaN
        ELSE RFScale(a[2][1], RF(PConst(QMul(QOne, embedding_value)),
                                 PAdd(PConst(QMul(QOne, kernel_value)), eps)))

\* C6: on a sample set of one point every estimator returns a defined estimate,
\* equal to (A * embedding_value / (A * kernel_value + eps)) * f_X[0].
C6_SinglePoint ==
    \A c \in 1..Len(ret) :
        NumPoints(args[c]) = 1 =>
            /\ ~RIsNaN(Value(ret[c]))
            /\ RFEq(Value(ret[c]), SinglePointValue(fn, args[c], ret[c].l_kernel))

IsVectorScale(f) == f \in {"KQ_Matern_12_Gaussian", "KQ_Matern_32_Uniform"}
Positive(f, l) == IF IsVectorScale(f) THEN \A j \in 1..Len(l) : l[j][1] > 0 ELSE l[1] > 0

\* C7: the length scale handed to the kernel and to the embedding is strictly
\* positive, in every component, for every sample set of N >= 1 points.
C7_PositiveLengthScale ==
    \A c \in 1..Len(ret) : Positive(fn, ret[c].l_kernel) /\ Positive(fn, ret[c].l_kme)

\* the entries |X - mean(X, axis=0)|, by index pair
Deviation(X, i, j) ==
    QAbs(QSub(X[i][j], QDiv(QSum([n \in 1..Len(X) |-> X[n][j]]), QInt(Len(X)))))
Entries(X) == (1..Len(X)) \X (1..Len(X[1]))
\* the k-th smallest of the entries: fewer than k entries are below it, and at
\* least k are not above it
Smallest(X, k) ==
    LET d(e) == Deviation(X, e[1], e[2])
        e0 == CHOOSE e \in Entries(X) :
                 /\ Cardinality({o \in Entries(X) : QLess(d(o), d(e))}) < k
                 /\ Cardinality({o \in Entries(X) : QLeq(d(o), d(e))}) >= k
    IN  d(e0)
MedianOfEntries(X) ==
    LET n == Cardinality(Entries(X))
    IN  IF n % 2 = 1 THEN Smallest(X, (n + 1) \div 2)
        ELSE QDiv(QAdd(Smallest(X, n \div 2), Smallest(X, (n \div 2) + 1)), QInt(2))
\* the length scale policy of estimator f
PolicyOf(f, X) ==
    CASE f \in {"KQ_RBF_Gaussian", "KQ_RBF_Uniform", "KQ_Matern_32_Gaussian",
                "KQ_Matern_12_Uniform"} -> MedianOfEntries(X)
      [] f = "KQ_Matern_12_Gaussian" -> [j \in 1..Len(X[1]) |-> <<1, 1>>]
      [] f = "KQ_Matern_32_Uniform" -> [j \in 1..Len(X[1]) |-> <<3, 1>>]
      [] f = "KQ_log_RBF_log_Gaussian" -> <<1, 10>>

\* C9: the length scale is the one of the estimator's policy (the median of all
\* N*D entries of |X - mean(X, axis=0)|, the vector of 1.0, the vector of 3.0 or
\* the constant 0.1), the kernel and the embedding get the same length scale, and
\* the amplitude is 1.
C9_LengthScalePolicy ==
    \A c \in 1..Len(ret) :
        /\ ret[c].l_kernel = PolicyOf(fn, args[c][1])
        /\ ret[c].l_kme = ret[c].l_kernel
        /\ ret[c].A = <<1, 1>>

\* calls with a median length scale over four entries, with vector length
\* scales of two components, and with the constant length scale have returned
C9_Witness ==
    /\ Len(ret) >= 1
    /\ \/ /\ fn = "KQ_RBF_Gaussian"
          /\ NumPoints(args[1]) = 2
          /\ NumDims(args[1]) = 2
          /\ ret[1].l_kernel = <<1, 4>>
       \/ /\ fn = "KQ_Matern_32_Uniform"
          /\ NumDims(args[1]) = 2
          /\ ret[1].l_kernel = <<<<3, 1>>, <<3, 1>>>>

=============================================================================
